---- MODULE Spec2Model ----
(***************************************************************************)
(* The two chat agents of nomad_camels/gui/agents:                         *)
(*   ProtocolAgent            (protocol_agent.py)                          *)
(*   MeasurementControlAgent  (measurement_control_agent.py)               *)
(* A behaviour follows one agent object from its construction: the main    *)
(* thread issues process_request calls one after the other, and every      *)
(* monitor created by the MeasurementControlAgent runs a background loop   *)
(* whose steps interleave with the calls.                                  *)
(*                                                                         *)
(* Python values.  A str that the code inspects or formats is a tagged     *)
(* record Str(<<characters>>); None is the record PyNone.  Intent labels,  *)
(* record types and statuses are only compared for equality and are TLA+   *)
(* strings.  A dict is a function on the keys it holds (Get is dict.get);  *)
(* the monitor registries, whose key order the code reads with             *)
(* list(d.keys()), are sequences of [key, val] pairs in insertion order.   *)
(***************************************************************************)
EXTENDS Integers, Sequences, FiniteSets, TLC

(***************************************************************************)
(* Bounds of the model.                                                    *)
(***************************************************************************)
\* number of background threads the agent may start in one behaviour
MaxThreads == 2
\* number of seconds the wall clock may advance in one behaviour
MaxTime == 1

(***************************************************************************)
(* Python values and the str operations the code uses.                     *)
(***************************************************************************)
PyNone == [t |-> "NoneType"]
Str(cs) == [t |-> "str", s |-> cs]
EmptyDict == [k \in {} |-> k]

\* bool(v) of a str or None
Truthy(v) == v.t = "str" /\ v.s # <<>>

\* d.get(k, default)
Get(d, k, default) == IF k \in DOMAIN d THEN d[k] ELSE default

\* needle in hay, for two character sequences
Contains(hay, needle) ==
    \E i \in 1..(Len(hay) + 1) :
        /\ i + Len(needle) - 1 <= Len(hay)
        /\ SubSeq(hay, i, i + Len(needle) - 1) = needle

Uppers == <<"A", "B", "C", "D", "E", "F", "G", "H", "I", "J", "K", "L", "M",
            "N", "O", "P", "Q", "R", "S", "T", "U", "V", "W", "X", "Y", "Z">>
Lowers == <<"a", "b", "c", "d", "e", "f", "g", "h", "i", "j", "k", "l", "m",
            "n", "o", "p", "q", "r", "s", "t", "u", "v", "w", "x", "y", "z">>
LowerChar(c) ==
    IF \E i \in 1..26 : Uppers[i] = c
    THEN Lowers[CHOOSE i \in 1..26 : Uppers[i] = c]
    ELSE c
\* s.lower()
Lower(cs) == [i \in 1..Len(cs) |-> LowerChar(cs[i])]

\* any(keyword in text for keyword in keywords)
AnyIn(keywords, text) == \E k \in keywords : Contains(text, k)

Digits == <<"0", "1", "2", "3", "4", "5", "6", "7", "8", "9">>
TwoDigits(n) == <<Digits[(n \div 10) + 1], Digits[(n % 10) + 1]>>
\* datetime.strftime('%H%M%S') of a clock reading given in seconds
HHMMSS(clock) ==
    TwoDigits((clock \div 3600) % 24) \o TwoDigits((clock \div 60) % 60)
        \o TwoDigits(clock % 60)

S_conditional_ == <<"c", "o", "n", "d", "i", "t", "i", "o", "n", "a", "l", "_">>
S_conditional == <<"c", "o", "n", "d", "i", "t", "i", "o", "n", "a", "l">>
S_device_ == <<"d", "e", "v", "i", "c", "e", "_">>
S_None == <<"N", "o", "n", "e">>

(***************************************************************************)
(* Keyword tables of the two agents.                                       *)
(***************************************************************************)
ConditionKeywords ==
    { <<"u", "n", "t", "i", "l">>,
      <<"w", "h", "e", "n">>,
      <<"i", "f">>,
      <<"r", "e", "a", "c", "h", "e", "s">>,
      <<"b", "e", "l", "o", "w">>,
      <<"a", "b", "o", "v", "e">> }
ListWords ==
    { <<"l", "i", "s", "t">>,
      <<"s", "h", "o", "w">>,
      <<"p", "r", "o", "v", "i", "d", "e">> }
ListPhrases ==
    { <<"p", "r", "o", "t", "o", "c", "o", "l">>,
      <<"m", "e", "a", "s", "u", "r", "e", "m", "e", "n", "t", " ",
        "p", "r", "o", "t", "o", "c", "o", "l">>,
      <<"p", "r", "o", "t", "o", "c", "o", "l", "s">> }
RunWords ==
    { <<"r", "u", "n">>,
      <<"e", "x", "e", "c", "u", "t", "e">>,
      <<"s", "t", "a", "r", "t">> }
InspectWords ==
    { <<"i", "n", "s", "p", "e", "c", "t">>,
      <<"a", "n", "a", "l", "y", "z", "e">>,
      <<"e", "x", "a", "m", "i", "n", "e">> }

(***************************************************************************)
(* The inputs of a call, drawn from small sets.                            *)
(***************************************************************************)
T_go == Str(<<"g", "o">>)
T_shIFt == Str(<<"s", "h", "I", "F", "t">>)
T_Run == Str(<<"R", "u", "n">>)
T_Show_protocol == Str(<<"S", "h", "o", "w", " ", "p", "r", "o", "t", "o", "c", "o", "l">>)
T_list == Str(<<"l", "i", "s", "t">>)
T_examine == Str(<<"e", "x", "a", "m", "i", "n", "e">>)

P_name == Str(<<"P">>)
Q_name == Str(<<"Q">>)
R_name == Str(<<"R", "2">>)
D_name == Str(<<"d">>)
Cond_c == Str(<<"p", "<", "1">>)

\* a dict holding key k with one of the values vs, or (absent) not holding it
Opt(k, vs, absent) == {k :> v : v \in vs} \cup (IF absent THEN {EmptyDict} ELSE {})

\* the snapshot's protocol map: a dict, of which the model keeps the keys in
\* their order (the data of a protocol only ever reaches a prompt), or None
\* for a malformed snapshot
Dict(keys) == [t |-> "dict", keys |-> keys]
ProtocolMaps == {Dict(<<P_name>>), Dict(<<P_name, R_name>>), PyNone}
IsMap(d) == d.t = "dict"
\* a listing that drops the first key
Keys_tail(d) == IF d.keys = <<>> THEN <<>> ELSE Tail(d.keys)
\* list(d.keys())
Keys(d) == d.keys
\* a membership test that finds every name
InMap_any(name, d) == TRUE
\* name in d
InMap(name, d) == \E i \in 1..Len(d.keys) : d.keys[i] = name

\* the hosted model: agent.run(prompt) returns a text or raises
ModelBehaviours ==
    {[raises |-> FALSE, text |-> "R1"], [raises |-> TRUE, text |-> "APIError"]}

OkModel == [raises |-> FALSE, text |-> "R1"]

\* the host window: without run_protocol, with it, or with one that raises
MainWindows == {"no_run_protocol", "run_protocol", "run_protocol_raises"}

(***************************************************************************)
(* Results of a handler: it returns a reply or raises, after having sent   *)
(* the prompts `prompts` to the model and made the calls `host_calls` of   *)
(* main_window.run_protocol.                                               *)
(***************************************************************************)
Returns(reply, prompts, host_calls) ==
    [raised |-> FALSE, exc |-> "", reply |-> reply,
     prompts |-> prompts, host_calls |-> host_calls]
Raises(exc, prompts, host_calls) ==
    [raised |-> TRUE, exc |-> exc, reply |-> [kind |-> "none"],
     prompts |-> prompts, host_calls |-> host_calls]

(***************************************************************************)
(* ProtocolAgent                                                           *)
(***************************************************************************)
\* the gate without the check of active_sample
PA_can_execute_protocol_nosample(protocol_name, context) ==
    LET system_state == Get(context, "system_state", EmptyDict)
    IN  IF Get(system_state, "protocol_running", FALSE) THEN FALSE ELSE TRUE

\* the gate without the check of protocol_running
PA_can_execute_protocol_norunning(protocol_name, context) ==
    LET system_state == Get(context, "system_state", EmptyDict)
    IN  IF Get(system_state, "active_sample", PyNone) = Str(S_None) THEN FALSE
        ELSE TRUE

PA_can_execute_protocol(protocol_name, context) ==
    LET system_state == Get(context, "system_state", EmptyDict)
    IN  IF Get(system_state, "active_sample", PyNone) = Str(S_None) THEN FALSE
        ELSE IF Get(system_state, "protocol_running", FALSE) THEN FALSE
        ELSE TRUE

PA_run_protocol(user_input, parameters, context, model, main_window) ==
    LET protocol_name == Get(parameters, "protocol_name", PyNone)
        system_state == Get(context, "system_state", EmptyDict)
        available_protocols == Get(system_state, "protocols", Dict(<<>>))
        prompts == <<"execution_prompt">>
    IN  IF ~Truthy(protocol_name)
        THEN Returns([kind |-> "need_protocol_name"], <<>>, <<>>)
        ELSE IF ~IsMap(available_protocols)
        THEN Raises("TypeError", <<>>, <<>>)
        ELSE IF ~InMap(protocol_name, available_protocols)
        THEN Returns([kind |-> "run_not_found", name |-> protocol_name,
                      names |-> Keys(available_protocols)], <<>>, <<>>)
        ELSE IF model.raises
        THEN Returns([kind |-> "run_error", exc |-> model.text], prompts, <<>>)
        ELSE IF PA_can_execute_protocol(protocol_name, context)
        THEN IF main_window # "no_run_protocol"
             THEN IF main_window = "run_protocol_raises"
                  THEN Returns([kind |-> "run_error", exc |-> "HostError"],
                               prompts, <<protocol_name>>)
                  ELSE Returns([kind |-> "run_starting", name |-> protocol_name,
                                response |-> model.text],
                               prompts, <<protocol_name>>)
             ELSE Returns([kind |-> "run_ready", name |-> protocol_name,
                           response |-> model.text], prompts, <<>>)
        ELSE Returns([kind |-> "run_cannot_execute", name |-> protocol_name,
                      response |-> model.text], prompts, <<>>)

PA_inspect_protocol(user_input, parameters, context, model) ==
    LET protocol_name == Get(parameters, "protocol_name", PyNone)
        system_state == Get(context, "system_state", EmptyDict)
        available_protocols == Get(system_state, "protocols", Dict(<<>>))
        prompts == <<"inspection_prompt">>
    IN  IF ~Truthy(protocol_name)
        THEN IF IsMap(available_protocols) /\ Keys(available_protocols) # <<>>
             THEN Returns([kind |-> "inspect_which",
                           names |-> Keys(available_protocols)], <<>>, <<>>)
             ELSE Returns([kind |-> "inspect_none_loaded"], <<>>, <<>>)
        ELSE IF ~IsMap(available_protocols)
        THEN Raises("TypeError", <<>>, <<>>)
        ELSE IF ~InMap(protocol_name, available_protocols)
        THEN Returns([kind |-> "inspect_not_found", name |-> protocol_name,
                      names |-> Keys(available_protocols)], <<>>, <<>>)
        ELSE IF model.raises
        THEN Returns([kind |-> "inspect_error", exc |-> model.text], prompts, <<>>)
        ELSE Returns([kind |-> "inspect_analysis", name |-> protocol_name,
                      response |-> model.text], prompts, <<>>)

PA_get_protocol_status(user_input, parameters, context, model) ==
    LET system_state == Get(context, "system_state", EmptyDict)
        prompts == <<"status_prompt">>
    IN  IF ~IsMap(Get(system_state, "protocols", Dict(<<>>)))
        THEN Raises("AttributeError", <<>>, <<>>)
        ELSE IF model.raises
        THEN Returns([kind |-> "status_error", exc |-> model.text], prompts, <<>>)
        ELSE Returns([kind |-> "status", response |-> model.text], prompts, <<>>)

\* _list_protocols without the except clause around the model call
PA_list_protocols_nofallback(user_input, parameters, context, model) ==
    LET system_state == Get(context, "system_state", EmptyDict)
        available_protocols == Get(system_state, "protocols", Dict(<<>>))
        prompts == <<"list_prompt">>
    IN  IF ~IsMap(available_protocols)
        THEN Raises("TypeError", <<>>, <<>>)
        ELSE IF Keys(available_protocols) = <<>>
        THEN Returns([kind |-> "list_none_found"], <<>>, <<>>)
        ELSE IF model.raises
        THEN Raises(model.text, prompts, <<>>)
        ELSE Returns([kind |-> "list_formatted",
                      count |-> Len(Keys(available_protocols)),
                      response |-> model.text], prompts, <<>>)

PA_list_protocols(user_input, parameters, context, model) ==
    LET system_state == Get(context, "system_state", EmptyDict)
        available_protocols == Get(system_state, "protocols", Dict(<<>>))
        prompts == <<"list_prompt">>
    IN  IF ~IsMap(available_protocols)
        THEN Raises("TypeError", <<>>, <<>>)
        ELSE IF Keys(available_protocols) = <<>>
        THEN Returns([kind |-> "list_none_found"], <<>>, <<>>)
        ELSE IF model.raises
        THEN Returns([kind |-> "list_bullets",
                      count |-> Len(Keys(available_protocols)),
                      bullets |-> Keys(available_protocols),
                      exc |-> model.text], prompts, <<>>)
        ELSE Returns([kind |-> "list_formatted",
                      count |-> Len(Keys(available_protocols)),
                      response |-> model.text], prompts, <<>>)

PA_general_protocol_query(user_input, parameters, context, model) ==
    LET system_state == Get(context, "system_state", EmptyDict)
        available_protocols == Get(system_state, "protocols", Dict(<<>>))
        prompts == <<"query_prompt">>
    IN  IF ~IsMap(available_protocols)
        THEN Raises("AttributeError", <<>>, <<>>)
        ELSE IF model.raises
        THEN Returns([kind |-> "query_error", exc |-> model.text], prompts, <<>>)
        ELSE Returns([kind |-> "query_info", response |-> model.text], prompts, <<>>)

\* process_request without the keyword fallback
PA_detect_intent_none(user_input) == "unknown"

\* the keyword fallback of process_request (lines 86-93)
PA_detect_intent(user_input) ==
    LET user_lower == Lower(user_input.s)
    IN  IF AnyIn(ListWords, user_lower) /\ AnyIn(ListPhrases, user_lower)
        THEN "list_protocols"
        ELSE IF AnyIn(RunWords, user_lower) THEN "run_protocol"
        ELSE IF AnyIn(InspectWords, user_lower) THEN "inspect_protocol"
        ELSE "unknown"

\* the intent process_request settles on (lines 76-93)
PA_intent(user_input, context) ==
    LET intent0 == Get(Get(context, "system_state", EmptyDict), "intent", "unknown")
        conv_history == Get(context, "conversation_history", <<>>)
        intent1 == IF intent0 = "unknown" /\ conv_history # <<>>
                   THEN Get(conv_history[Len(conv_history)], "intent", "unknown")
                   ELSE intent0
    IN  IF intent0 = "unknown" /\ intent1 = "unknown"
        THEN PA_detect_intent(user_input)
        ELSE intent1

\* the handler process_request selects (lines 97-106)
PA_handler(intent) ==
    CASE intent = "run_protocol" -> "_run_protocol"
      [] intent = "list_protocols" -> "_list_protocols"
      [] intent = "inspect_protocol" -> "_inspect_protocol"
      [] intent = "protocol_status" -> "_get_protocol_status"
      [] OTHER -> "_general_protocol_query"

\* the try block of process_request: what the selected handler does
PA_dispatch(user_input, parameters, context, model, main_window) ==
    LET handler == PA_handler(PA_intent(user_input, context))
    IN  CASE handler = "_run_protocol" ->
                PA_run_protocol(user_input, parameters, context, model, main_window)
          [] handler = "_list_protocols" ->
                PA_list_protocols(user_input, parameters, context, model)
          [] handler = "_inspect_protocol" ->
                PA_inspect_protocol(user_input, parameters, context, model)
          [] handler = "_get_protocol_status" ->
                PA_get_protocol_status(user_input, parameters, context, model)
          [] OTHER ->
                PA_general_protocol_query(user_input, parameters, context, model)

\* process_request without its except clause
PA_process_request_nocatch(user_input, parameters, context, model, main_window) ==
    PA_dispatch(user_input, parameters, context, model, main_window)

PA_process_request(user_input, parameters, context, model, main_window) ==
    LET r == PA_dispatch(user_input, parameters, context, model, main_window)
    IN  IF r.raised
        THEN [r EXCEPT !.raised = FALSE,
                       !.reply = [kind |-> "process_error", exc |-> r.exc]]
        ELSE r

(***************************************************************************)
(* MeasurementControlAgent: the registries.                                *)
(* self is [active_monitors, monitoring_threads, threads]; threads is the  *)
(* sequence of the background threads started so far, a thread object      *)
(* being its index.                                                        *)
(***************************************************************************)
\* k in d
DictHas(d, k) == \E i \in 1..Len(d) : d[i].key = k
DictIdx(d, k) == CHOOSE i \in 1..Len(d) : d[i].key = k
\* d[k]
DictGet(d, k) == d[DictIdx(d, k)].val
\* d[k] = v
DictSet(d, k, v) ==
    IF DictHas(d, k)
    THEN [d EXCEPT ![DictIdx(d, k)].val = v]
    ELSE Append(d, [key |-> k, val |-> v])
\* del d[k]
DictDel(d, k) == SelectSeq(d, LAMBDA e : e.key # k)
\* list(d.keys())
DictKeys(d) == [i \in 1..Len(d) |-> d[i].key]
\* d[k]['status'] = status
SetStatus(d, k, status) == DictSet(d, k, [DictGet(d, k) EXCEPT !.status = status])

\* an extraction that finds no condition
MCA_extract_condition_from_text_none(text) == Str(<<>>)

MCA_extract_condition_from_text(text) == text

\* the identifier without the protocol name
MCA_conditional_monitor_id_noname(protocol_name, clock) ==
    Str(S_conditional_ \o HHMMSS(clock))

\* f"conditional_{protocol_name}_{datetime.now().strftime('%H%M%S')}"
MCA_conditional_monitor_id(protocol_name, clock) ==
    Str(S_conditional_ \o protocol_name.s \o <<"_">> \o HHMMSS(clock))

\* f"device_{device_name}_{datetime.now().strftime('%H%M%S')}"
MCA_device_monitor_id(device_name, clock) ==
    Str(S_device_ \o device_name.s \o <<"_">> \o HHMMSS(clock))

MCA_create_conditional_monitor(self, protocol_name, condition, context, clock) ==
    LET monitor_id == MCA_conditional_monitor_id(protocol_name, clock)
        record == [type |-> "conditional", protocol |-> protocol_name,
                   condition |-> condition, created |-> clock,
                   status |-> "active"]
        thread == [target |-> "_conditional_monitor_loop",
                   monitor_id |-> monitor_id, interval |-> 1, pc |-> "while_in"]
    IN  [monitor_id |-> monitor_id,
         self |-> [active_monitors |->
                       DictSet(self.active_monitors, monitor_id, record),
                   threads |-> Append(self.threads, thread),
                   monitoring_threads |->
                       DictSet(self.monitoring_threads, monitor_id,
                               Len(self.threads) + 1)]]

MCA_create_device_monitor(self, device_name, parameter, interval, context, clock) ==
    LET monitor_id == MCA_device_monitor_id(device_name, clock)
        record == [type |-> "device", device |-> device_name,
                   parameter |-> parameter, interval |-> interval,
                   created |-> clock, status |-> "active"]
        thread == [target |-> "_device_monitor_loop",
                   monitor_id |-> monitor_id, interval |-> interval,
                   pc |-> "while_in"]
    IN  [monitor_id |-> monitor_id,
         self |-> [active_monitors |->
                       DictSet(self.active_monitors, monitor_id, record),
                   threads |-> Append(self.threads, thread),
                   monitoring_threads |->
                       DictSet(self.monitoring_threads, monitor_id,
                               Len(self.threads) + 1)]]

\* _stop_monitor that forgets the thread reference only
MCA_stop_monitor_keeps_record(self, monitor_id) ==
    [self EXCEPT !.monitoring_threads =
                     IF DictHas(self.monitoring_threads, monitor_id)
                     THEN DictDel(self.monitoring_threads, monitor_id)
                     ELSE @]

\* _stop_monitor that drops every record
MCA_stop_monitor_clears(self, monitor_id) ==
    [self EXCEPT !.active_monitors = <<>>, !.monitoring_threads = <<>>]

MCA_stop_monitor(self, monitor_id) ==
    [self EXCEPT
        !.active_monitors =
            IF DictHas(self.active_monitors, monitor_id)
            THEN DictDel(SetStatus(self.active_monitors, monitor_id, "stopped"),
                         monitor_id)
            ELSE @,
        !.monitoring_threads =
            IF DictHas(self.monitoring_threads, monitor_id)
            THEN DictDel(self.monitoring_threads, monitor_id)
            ELSE @]

\* for mid in stopped_monitors: self._stop_monitor(mid)
RECURSIVE MCA_stop_each(_, _)
MCA_stop_each(self, mids) ==
    IF mids = <<>> THEN self
    ELSE MCA_stop_each(MCA_stop_monitor(self, Head(mids)), Tail(mids))

MCA_get_active_monitors(self) == self.active_monitors

(***************************************************************************)
(* MeasurementControlAgent: the handlers.  A result also carries self as   *)
(* the handler leaves it.                                                  *)
(***************************************************************************)
With(result, self) == result @@ [self |-> self]

MCA_inspect_protocol(self, user_input, parameters, context, model) ==
    LET protocol_name == Get(parameters, "protocol_name", PyNone)
        system_state == Get(context, "system_state", EmptyDict)
        available_protocols == Get(system_state, "protocols", Dict(<<>>))
        prompts == <<"inspection_prompt">>
    IN  With(IF ~Truthy(protocol_name)
             THEN IF IsMap(available_protocols) /\ Keys(available_protocols) # <<>>
                  THEN Returns([kind |-> "inspect_which",
                                names |-> Keys(available_protocols)], <<>>, <<>>)
                  ELSE Returns([kind |-> "inspect_none_loaded"], <<>>, <<>>)
             ELSE IF ~IsMap(available_protocols)
             THEN Raises("TypeError", <<>>, <<>>)
             ELSE IF ~InMap(protocol_name, available_protocols)
             THEN Returns([kind |-> "inspect_not_found", name |-> protocol_name,
                           names |-> Keys(available_protocols)], <<>>, <<>>)
             ELSE IF model.raises
             THEN Returns([kind |-> "inspect_error", exc |-> model.text],
                          prompts, <<>>)
             ELSE Returns([kind |-> "inspect_analysis", name |-> protocol_name,
                           response |-> model.text], prompts, <<>>),
             self)

MCA_setup_conditional_execution(self, user_input, parameters, context, model, clock) ==
    LET protocol_name == Get(parameters, "protocol_name", PyNone)
        condition0 == Get(parameters, "condition", Str(<<>>))
        system_state == Get(context, "system_state", EmptyDict)
        available_protocols == Get(system_state, "protocols", Dict(<<>>))
        condition ==
            IF ~Truthy(condition0) /\ AnyIn(ConditionKeywords, Lower(user_input.s))
            THEN MCA_extract_condition_from_text(user_input)
            ELSE condition0
        prompts == <<"setup_prompt">>
        created == MCA_create_conditional_monitor(self, protocol_name, condition,
                                                  context, clock)
    IN  IF ~IsMap(available_protocols)
        THEN With(Raises("AttributeError", <<>>, <<>>), self)
        ELSE IF model.raises
        THEN With(Returns([kind |-> "conditional_error", exc |-> model.text],
                          prompts, <<>>), self)
        ELSE IF Truthy(protocol_name) /\ Truthy(condition)
        THEN With(Returns([kind |-> "conditional_setup", response |-> model.text,
                           monitor_id |-> created.monitor_id], prompts, <<>>),
                  created.self)
        ELSE With(Returns([kind |-> "conditional_analysis",
                           response |-> model.text], prompts, <<>>), self)

MCA_setup_device_monitoring(self, user_input, parameters, context, model, clock) ==
    LET device_name == Get(parameters, "device", Str(<<>>))
        parameter_name == Get(parameters, "parameter", Str(<<>>))
        interval == Get(parameters, "interval", 1)
        prompts == <<"monitoring_prompt">>
        created == MCA_create_device_monitor(self, device_name, parameter_name,
                                             interval, context, clock)
    IN  IF model.raises
        THEN With(Returns([kind |-> "monitoring_error", exc |-> model.text],
                          prompts, <<>>), self)
        ELSE IF Truthy(device_name)
        THEN With(Returns([kind |-> "monitoring_setup", response |-> model.text,
                           monitor_id |-> created.monitor_id], prompts, <<>>),
                  created.self)
        ELSE With(Returns([kind |-> "monitoring_analysis",
                           response |-> model.text], prompts, <<>>), self)

MCA_stop_monitoring(self, user_input, parameters, context) ==
    LET monitor_id == Get(parameters, "monitor_id", Str(<<>>))
        stopped_monitors == DictKeys(self.active_monitors)
    IN  IF Truthy(monitor_id) /\ DictHas(self.active_monitors, monitor_id)
        THEN With(Returns([kind |-> "stopped", monitor_id |-> monitor_id],
                          <<>>, <<>>),
                  MCA_stop_monitor(self, monitor_id))
        ELSE IF ~Truthy(monitor_id) /\ self.active_monitors # <<>>
        THEN With(Returns([kind |-> "stopped_all",
                           stopped_monitors |-> stopped_monitors], <<>>, <<>>),
                  MCA_stop_each(self, stopped_monitors))
        ELSE With(Returns([kind |-> "no_active_monitoring"], <<>>, <<>>), self)

MCA_analyze_measurement_request(self, user_input, parameters, context, model) ==
    LET system_state == Get(context, "system_state", EmptyDict)
        prompts == <<"analysis_prompt">>
    IN  With(IF ~IsMap(Get(system_state, "protocols", Dict(<<>>)))
             THEN Raises("AttributeError", <<>>, <<>>)
             ELSE IF model.raises
             THEN Returns([kind |-> "analysis_error", exc |-> model.text],
                          prompts, <<>>)
             ELSE Returns([kind |-> "analysis", response |-> model.text],
                          prompts, <<>>),
             self)

\* a selection that lacks the stop_monitoring branch
MCA_handler_nostop(context) ==
    LET intent == Get(Get(context, "system_state", EmptyDict), "intent", "unknown")
    IN  CASE intent = "inspect_protocol" -> "_inspect_protocol"
          [] intent = "conditional_execution" -> "_setup_conditional_execution"
          [] intent = "monitor_devices" -> "_setup_device_monitoring"
          [] OTHER -> "_analyze_measurement_request"

\* the handler process_request selects (lines 92-103)
MCA_handler(context) ==
    LET intent == Get(Get(context, "system_state", EmptyDict), "intent", "unknown")
    IN  CASE intent = "inspect_protocol" -> "_inspect_protocol"
          [] intent = "conditional_execution" -> "_setup_conditional_execution"
          [] intent = "monitor_devices" -> "_setup_device_monitoring"
          [] intent = "stop_monitoring" -> "_stop_monitoring"
          [] OTHER -> "_analyze_measurement_request"

\* the try block of process_request: what the selected handler does
MCA_dispatch(self, user_input, parameters, context, model, clock) ==
    LET handler == MCA_handler(context)
    IN  CASE handler = "_inspect_protocol" ->
                MCA_inspect_protocol(self, user_input, parameters, context, model)
          [] handler = "_setup_conditional_execution" ->
                MCA_setup_conditional_execution(self, user_input, parameters,
                                                context, model, clock)
          [] handler = "_setup_device_monitoring" ->
                MCA_setup_device_monitoring(self, user_input, parameters,
                                            context, model, clock)
          [] handler = "_stop_monitoring" ->
                MCA_stop_monitoring(self, user_input, parameters, context)
          [] OTHER ->
                MCA_analyze_measurement_request(self, user_input, parameters,
                                                context, model)

\* process_request without its except clause
MCA_process_request_nocatch(self, user_input, parameters, context, model, clock) ==
    MCA_dispatch(self, user_input, parameters, context, model, clock)

MCA_process_request(self, user_input, parameters, context, model, clock) ==
    LET r == MCA_dispatch(self, user_input, parameters, context, model, clock)
    IN  IF r.raised
        THEN [r EXCEPT !.raised = FALSE,
                       !.reply = [kind |-> "process_error", exc |-> r.exc]]
        ELSE r

(***************************************************************************)
(* The requests of a behaviour.                                            *)
(***************************************************************************)
PA_Texts == {T_go, T_Run, T_Show_protocol, T_list, T_examine}
PA_KnownIntents ==
    {"run_protocol", "list_protocols", "inspect_protocol", "protocol_status"}
PA_Histories == {<<>>, <<EmptyDict>>, <<[intent |-> "list_protocols"]>>}

PA_SystemStates(intents, absent) ==
    { i @@ p @@ a @@ r :
        i \in Opt("intent", intents, absent),
        p \in Opt("protocols", ProtocolMaps, TRUE),
        a \in Opt("active_sample", {Str(S_None), Str(<<"S", "1">>)}, TRUE),
        r \in Opt("protocol_running", {TRUE}, TRUE) }

\* a classified request carries its intent in the snapshot; an unclassified
\* one (intent absent or "unknown") is routed by the history and the text
PA_Requests ==
    { [user_input |-> T_go, context |-> [system_state |-> ss]] :
        ss \in PA_SystemStates(PA_KnownIntents \cup {"help"}, FALSE) }
    \cup
    { [user_input |-> t, context |-> [system_state |-> ss] @@ h] :
        t \in PA_Texts,
        ss \in PA_SystemStates({"unknown"}, TRUE),
        h \in Opt("conversation_history", PA_Histories, FALSE) }

PA_Parameters == Opt("protocol_name", {P_name, Q_name}, TRUE)

\* the identifiers the agent can hand out within the clock's bound
MonitorIds ==
    { MCA_conditional_monitor_id(P_name, c) : c \in 0..MaxTime }
    \cup { MCA_device_monitor_id(D_name, c) : c \in 0..MaxTime }

MCA_Intent(intent) == [system_state |-> [intent |-> intent]]

\* the requests of the MeasurementControlAgent, by the classified intent,
\* with the parameters and snapshot entries the selected handler reads
MCA_Requests ==
    { [user_input |-> T_go, parameters |-> n,
       context |-> [system_state |-> [intent |-> "inspect_protocol", protocols |-> p]],
       model |-> m] :
        n \in Opt("protocol_name", {P_name, Q_name}, TRUE),
        p \in {Dict(<<P_name, R_name>>), PyNone},
        m \in ModelBehaviours }
    \cup
    { [user_input |-> t, parameters |-> n @@ c,
       context |-> MCA_Intent("conditional_execution"), model |-> m] :
        t \in {T_go, T_shIFt},
        n \in Opt("protocol_name", {P_name}, TRUE),
        c \in Opt("condition", {Cond_c}, TRUE),
        m \in ModelBehaviours }
    \cup
    { [user_input |-> T_go,
       parameters |-> [protocol_name |-> P_name, condition |-> Cond_c],
       context |-> [system_state |->
                       [intent |-> "conditional_execution", protocols |-> PyNone]],
       model |-> OkModel] }
    \cup
    { [user_input |-> T_go, parameters |-> d,
       context |-> MCA_Intent("monitor_devices"), model |-> m] :
        d \in {EmptyDict, [device |-> D_name], [device |-> D_name, interval |-> -1]},
        m \in ModelBehaviours }
    \cup
    { [user_input |-> T_go, parameters |-> mid,
       context |-> MCA_Intent("stop_monitoring"), model |-> OkModel] :
        mid \in Opt("monitor_id", MonitorIds, TRUE) }
    \cup
    { [user_input |-> T_go, parameters |-> EmptyDict,
       context |-> [system_state |-> i], model |-> m] :
        i \in Opt("intent", {"help"}, TRUE) \cup {[protocols |-> PyNone]},
        m \in ModelBehaviours }

(***************************************************************************)
(* State.                                                                  *)
(***************************************************************************)
VARIABLES
    agent,               \* the class of the agent object this behaviour follows
    main_window,         \* self.main_window
    active_monitors,     \* self.active_monitors
    monitoring_threads,  \* self.monitoring_threads
    threads,             \* the background threads started so far
    now,                 \* the wall clock, in seconds
    stopped,             \* the live threads whose monitor a stop request has
                         \* removed (history: the program keeps no such set)
    last                 \* the process_request call that has just returned: its
                         \* arguments and result (NoCall once anything else happened)

vars == <<agent, main_window, active_monitors, monitoring_threads, threads, now,
          stopped, last>>

Self == [active_monitors |-> active_monitors,
         monitoring_threads |-> monitoring_threads,
         threads |-> threads]

NoCall == [agent |-> "none"]

\* __init__ of either class.  The MeasurementControlAgent never reads its
\* main_window.
Init ==
    /\ \/ agent = "ProtocolAgent" /\ main_window \in MainWindows
       \/ agent = "MeasurementControlAgent" /\ main_window = "no_run_protocol"
    /\ active_monitors = <<>>
    /\ monitoring_threads = <<>>
    /\ threads = <<>>
    /\ now = 0
    /\ stopped = {}
    /\ last = NoCall

(***************************************************************************)
(* The main thread: one process_request call, from entry to return (the    *)
(* caller is single-threaded: the next call starts after the reply of the  *)
(* last one has been taken, TakeReply).                                    *)
(***************************************************************************)
PA_ProcessRequest ==
    /\ agent = "ProtocolAgent"
    /\ last = NoCall
    /\ \E req \in PA_Requests, parameters \in PA_Parameters, model \in ModelBehaviours :
         LET r == PA_process_request(req.user_input, parameters, req.context,
                                     model, main_window)
         IN  last' = [agent |-> agent,
                      handler |-> PA_handler(PA_intent(req.user_input, req.context)),
                      user_input |-> req.user_input,
                      parameters |-> parameters,
                      context |-> req.context,
                      model |-> model,
                      raised |-> r.raised,
                      reply |-> r.reply,
                      prompts |-> r.prompts,
                      host_calls |-> r.host_calls]
    /\ UNCHANGED <<agent, main_window, active_monitors, monitoring_threads, threads, now,
                   stopped>>

MCA_ProcessRequest ==
    /\ agent = "MeasurementControlAgent"
    /\ last = NoCall
    /\ \E req \in MCA_Requests :
         LET r == MCA_process_request(Self, req.user_input, req.parameters,
                                      req.context, req.model, now)
         IN  /\ Len(r.self.threads) <= MaxThreads
             /\ active_monitors' = r.self.active_monitors
             /\ monitoring_threads' = r.self.monitoring_threads
             /\ threads' = r.self.threads
             /\ stopped' = stopped \cup
                    { monitoring_threads[j].val : j \in
                        { j \in 1..Len(monitoring_threads) :
                            /\ ~DictHas(r.self.monitoring_threads,
                                        monitoring_threads[j].key)
                            /\ threads[monitoring_threads[j].val].pc
                                   \notin {"done", "crashed"} } }
             /\ last' = [agent |-> agent,
                         handler |-> MCA_handler(req.context),
                         user_input |-> req.user_input,
                         parameters |-> req.parameters,
                         context |-> req.context,
                         model |-> req.model,
                         raised |-> r.raised,
                         reply |-> r.reply,
                         prompts |-> r.prompts,
                         host_calls |-> r.host_calls]
    /\ UNCHANGED <<agent, main_window, now>>

(***************************************************************************)
(* A background thread: _conditional_monitor_loop and _device_monitor_loop *)
(* have the same steps and differ in the sleep.  pc is                     *)
(*   while_in      before `monitor_id in self.active_monitors`             *)
(*   while_status  before `self.active_monitors[monitor_id]['status']`     *)
(*   except_in     in the handler, before the membership test              *)
(*   except_set    in the handler, before the status write                 *)
(*   done          returned;   crashed  ended by an uncaught exception     *)
(* The subscript and the access to the record it yields are two steps of   *)
(* the interpreter: when the record is gone at the second, the thread      *)
(* either raises KeyError or still holds the record the stop marked        *)
(* 'stopped'.                                                              *)
(***************************************************************************)
\* a thread that has ended keeps nothing but how it ended
SetPc(i, pc) ==
    /\ threads' = [threads EXCEPT ![i] = IF pc \in {"done", "crashed"}
                                         THEN [pc |-> pc]
                                         ELSE [@ EXCEPT !.pc = pc]]
    /\ stopped' = IF pc \in {"done", "crashed"} THEN stopped \ {i} ELSE stopped

LoopWhileIn(i) ==
    /\ threads[i].pc = "while_in"
    /\ IF DictHas(active_monitors, threads[i].monitor_id)
       THEN SetPc(i, "while_status")
       ELSE SetPc(i, "done")
    /\ last' = NoCall
    /\ UNCHANGED <<agent, main_window, active_monitors, monitoring_threads, now>>

\* the status read, and for an active monitor the body: log, time.sleep
LoopWhileStatus(i) ==
    /\ threads[i].pc = "while_status"
    /\ IF DictHas(active_monitors, threads[i].monitor_id)
       THEN IF DictGet(active_monitors, threads[i].monitor_id).status = "active"
            THEN IF threads[i].interval < 0
                 THEN SetPc(i, "except_in")
                 ELSE SetPc(i, "while_in")
            ELSE SetPc(i, "done")
       ELSE \E pc \in {"except_in", "done"} : SetPc(i, pc)
    /\ last' = NoCall
    /\ UNCHANGED <<agent, main_window, active_monitors, monitoring_threads, now>>

LoopExceptIn(i) ==
    /\ threads[i].pc = "except_in"
    /\ IF DictHas(active_monitors, threads[i].monitor_id)
       THEN SetPc(i, "except_set")
       ELSE SetPc(i, "done")
    /\ last' = NoCall
    /\ UNCHANGED <<agent, main_window, active_monitors, monitoring_threads, now>>

LoopExceptSet(i) ==
    /\ threads[i].pc = "except_set"
    /\ IF DictHas(active_monitors, threads[i].monitor_id)
       THEN /\ active_monitors' =
                   SetStatus(active_monitors, threads[i].monitor_id, "error")
            /\ SetPc(i, "done")
       ELSE /\ \E pc \in {"crashed", "done"} : SetPc(i, pc)
            /\ UNCHANGED active_monitors
    /\ last' = NoCall
    /\ UNCHANGED <<agent, main_window, monitoring_threads, now>>

\* the caller takes the reply and is ready for its next call
TakeReply ==
    /\ last # NoCall
    /\ last' = NoCall
    /\ UNCHANGED <<agent, main_window, active_monitors, monitoring_threads, threads, now,
                   stopped>>

\* a second passes
Tick ==
    /\ agent = "MeasurementControlAgent"
    /\ now < MaxTime
    /\ now' = now + 1
    /\ last' = NoCall
    /\ UNCHANGED <<agent, main_window, active_monitors, monitoring_threads, threads,
                   stopped>>

Next ==
    \/ PA_ProcessRequest
    \/ MCA_ProcessRequest
    \/ TakeReply
    \/ \E i \in 1..Len(threads) : LoopWhileIn(i)
    \/ \E i \in 1..Len(threads) : LoopWhileStatus(i)
    \/ \E i \in 1..Len(threads) : LoopExceptIn(i)
    \/ \E i \in 1..Len(threads) : LoopExceptSet(i)
    \/ Tick

Spec == Init /\ [][Next]_vars

\* a step of the i-th background thread
LoopStep(i) ==
    /\ i <= Len(threads)
    /\ \/ LoopWhileIn(i)
       \/ LoopWhileStatus(i)
       \/ LoopExceptIn(i)
       \/ LoopExceptSet(i)

\* the operating system schedules every started thread again and again
FairSpec == Spec /\ \A i \in 1..MaxThreads : WF_vars(LoopStep(i))

(***************************************************************************)
(* Properties.                                                             *)
(***************************************************************************)
Called(a) == last # NoCall /\ last.agent = a
SystemState == Get(last.context, "system_state", EmptyDict)
ProtocolName == Get(last.parameters, "protocol_name", PyNone)
\* the snapshot's protocol map (absent: empty), when it is one
HasProtocolMap == Get(SystemState, "protocols", Dict(<<>>)).t = "dict"
ProtocolList == Get(SystemState, "protocols", Dict(<<>>)).keys
NamesProtocol ==
    /\ ProtocolName.t = "str" /\ ProtocolName.s # <<>>
    /\ HasProtocolMap
    /\ \E i \in 1..Len(ProtocolList) : ProtocolList[i] = ProtocolName
ModelReturned == ~last.model.raises
\* this step is a process_request call, from entry to return
CallStep(a) == last' # NoCall /\ last'.agent = a

\* C1: a ProtocolAgent request whose snapshot has active_sample "None" never
\* invokes the host's run_protocol, whatever the model returns and whatever
\* the rest of the snapshot is.
C1_NoSampleNoRun ==
    ( /\ Called("ProtocolAgent")
      /\ "active_sample" \in DOMAIN SystemState
      /\ SystemState.active_sample = Str(S_None) )
    => last.host_calls = <<>>

\* a run request that would have started the protocol but for the sample
C1_Witness ==
    /\ Called("ProtocolAgent")
    /\ last.handler = "_run_protocol"
    /\ "active_sample" \in DOMAIN SystemState
    /\ SystemState.active_sample = Str(S_None)
    /\ "protocol_running" \notin DOMAIN SystemState
    /\ NamesProtocol /\ ModelReturned
    /\ main_window = "run_protocol"
    /\ last.reply.kind = "run_cannot_execute"

ProtocolRunning == Get(SystemState, "protocol_running", FALSE)

\* C2 as claimed: a run request whose snapshot reports a running protocol
\* never invokes run_protocol and is answered by the 'cannot execute' message.
C2_AsClaimed ==
    ( /\ Called("ProtocolAgent")
      /\ last.handler = "_run_protocol"
      /\ ProtocolRunning )
    => /\ last.host_calls = <<>>
       /\ last.reply.kind = "run_cannot_execute"

\* C2 (amended): a run request whose snapshot reports a running protocol never
\* invokes run_protocol; it is answered by the 'cannot execute' message
\* exactly when it names a protocol of the snapshot's protocol map and the
\* model call returns.
C2_RunningNoRun ==
    ( /\ Called("ProtocolAgent")
      /\ last.handler = "_run_protocol"
      /\ ProtocolRunning )
    => /\ last.host_calls = <<>>
       /\ (last.reply.kind = "run_cannot_execute")
             <=> (NamesProtocol /\ ModelReturned)

\* a run request blocked by the running protocol alone
C2_Witness ==
    /\ Called("ProtocolAgent")
    /\ last.handler = "_run_protocol"
    /\ ProtocolRunning
    /\ "active_sample" \in DOMAIN SystemState
    /\ SystemState.active_sample # Str(S_None)
    /\ NamesProtocol /\ ModelReturned
    /\ main_window = "run_protocol"
    /\ last.reply.kind = "run_cannot_execute"
    /\ last.host_calls = <<>>

\* C3 as claimed: a run request whose snapshot has no active_sample entry
\* never invokes run_protocol.
C3_AsClaimed ==
    ( /\ Called("ProtocolAgent")
      /\ last.handler = "_run_protocol"
      /\ "active_sample" \notin DOMAIN SystemState )
    => last.host_calls = <<>>

\* C4: process_request of either agent returns a text message and never
\* propagates an exception, whatever fails in the handler, the model call or
\* the host call.
C4_NeverRaises ==
    /\ Called("ProtocolAgent") => ~last.raised /\ last.reply.kind # "none"
    /\ Called("MeasurementControlAgent") =>
           ~last.raised /\ last.reply.kind # "none"

\* a handler of the MeasurementControlAgent raised and the call still returned
C4_Witness ==
    /\ Called("MeasurementControlAgent")
    /\ ~HasProtocolMap
    /\ ~last.raised
    /\ last.reply.kind = "process_error"

StopRequest(call) ==
    /\ call.agent = "MeasurementControlAgent"
    /\ call.handler = "_stop_monitoring"
MonitorIdOf(call) == Get(call.parameters, "monitor_id", Str(<<>>))
KeySet(d) == {d[i].key : i \in 1..Len(d)}
SeqSet(q) == {q[i] : i \in 1..Len(q)}

\* C5: a stop request with no identifier, made while monitors are registered,
\* leaves active_monitors and monitoring_threads empty and reports exactly the
\* identifiers that were registered before the call.
C5_StopAll ==
    [][ ( /\ CallStep("MeasurementControlAgent")
          /\ StopRequest(last')
          /\ MonitorIdOf(last').s = <<>>
          /\ active_monitors # <<>> )
        => /\ active_monitors' = <<>>
           /\ monitoring_threads' = <<>>
           /\ last'.reply.kind = "stopped_all"
           /\ SeqSet(last'.reply.stopped_monitors) = KeySet(active_monitors)
           /\ Len(last'.reply.stopped_monitors) = Cardinality(KeySet(active_monitors))
      ]_vars

\* stop-all has just stopped two monitors
C5_Witness ==
    /\ Called("MeasurementControlAgent")
    /\ StopRequest(last)
    /\ last.reply.kind = "stopped_all"
    /\ Len(last.reply.stopped_monitors) = 2
    /\ active_monitors = <<>>
    /\ monitoring_threads = <<>>

\* C6: a stop request naming a registered identifier removes that identifier
\* from active_monitors and monitoring_threads and leaves every other record
\* (its status included) and thread reference as it was.
C6_StopOne ==
    [][ ( /\ CallStep("MeasurementControlAgent")
          /\ StopRequest(last')
          /\ MonitorIdOf(last').s # <<>>
          /\ DictHas(active_monitors, MonitorIdOf(last')) )
        => LET M == MonitorIdOf(last')
           IN  /\ KeySet(active_monitors') = KeySet(active_monitors) \ {M}
               /\ KeySet(monitoring_threads') = KeySet(monitoring_threads) \ {M}
               /\ \A k \in KeySet(active_monitors') :
                      DictGet(active_monitors', k) = DictGet(active_monitors, k)
               /\ \A k \in KeySet(monitoring_threads') :
                      DictGet(monitoring_threads', k) = DictGet(monitoring_threads, k)
               /\ last'.reply = [kind |-> "stopped", monitor_id |-> M]
      ]_vars

\* one monitor has just been stopped by name and another is still registered
C6_Witness ==
    /\ Called("MeasurementControlAgent")
    /\ StopRequest(last)
    /\ last.reply.kind = "stopped"
    /\ active_monitors # <<>>
    /\ monitoring_threads # <<>>
    /\ ~DictHas(active_monitors, MonitorIdOf(last))

\* C7 as claimed: a stop request naming an identifier that is not registered
\* leaves the registry as it is and is answered by the "no active monitoring
\* tasks" message when the registry is empty, by a different message when
\* other monitors are registered.
C7_AsClaimed ==
    [][ ( /\ CallStep("MeasurementControlAgent")
          /\ StopRequest(last')
          /\ MonitorIdOf(last').s # <<>>
          /\ ~DictHas(active_monitors, MonitorIdOf(last')) )
        => /\ UNCHANGED <<active_monitors, monitoring_threads>>
           /\ (active_monitors = <<>>)
                 <=> (last'.reply.kind = "no_active_monitoring")
      ]_vars

\* C8: the identifier a conditional-monitor creation returns contains
\* "conditional" and the protocol name, and when the creation returns
\* get_active_monitors() holds that identifier with a record of type
\* conditional for that protocol, whatever was created before.
C8_ConditionalMonitorListed ==
    ( /\ Called("MeasurementControlAgent")
      /\ last.reply.kind = "conditional_setup" )
    => LET id == last.reply.monitor_id
           listing == MCA_get_active_monitors(Self)
       IN  /\ Contains(id.s, S_conditional)
           /\ Contains(id.s, ProtocolName.s)
           /\ DictHas(listing, id)
           /\ DictGet(listing, id).type = "conditional"
           /\ DictGet(listing, id).protocol = ProtocolName

\* a conditional monitor has just been created after another monitor
C8_Witness ==
    /\ Called("MeasurementControlAgent")
    /\ last.reply.kind = "conditional_setup"
    /\ Len(threads) = 2
    /\ DictHas(active_monitors, last.reply.monitor_id)

ConditionalRequest(call) ==
    /\ call.agent = "MeasurementControlAgent"
    /\ call.handler = "_setup_conditional_execution"
\* the condition of a request: the one of the parameters, or the request text
\* when the parameters have none and the text holds a trigger keyword
ConditionOf(call) ==
    LET c == Get(call.parameters, "condition", Str(<<>>))
    IN  IF c.s # <<>> THEN c
        ELSE IF \E k \in ConditionKeywords : Contains(Lower(call.user_input.s), k)
        THEN call.user_input
        ELSE Str(<<>>)
HasNameAndCondition(call) ==
    LET n == Get(call.parameters, "protocol_name", PyNone)
    IN  /\ n.t = "str" /\ n.s # <<>>
        /\ ConditionOf(call).s # <<>>
WellFormed(call) ==
    Get(Get(call.context, "system_state", EmptyDict), "protocols", Dict(<<>>)).t = "dict"
\* the step registers one monitor record for the request and starts one loop
RegistersMonitor ==
    /\ Len(threads') = Len(threads) + 1
    /\ threads'[Len(threads')].pc = "while_in"
    /\ threads'[Len(threads')].monitor_id = last'.reply.monitor_id
    /\ DictHas(active_monitors', last'.reply.monitor_id)
    /\ DictGet(active_monitors', last'.reply.monitor_id).condition = ConditionOf(last')
    /\ DictGet(active_monitors', last'.reply.monitor_id).status = "active"
    /\ DictGet(monitoring_threads', last'.reply.monitor_id) = Len(threads')

\* C9 as claimed: a conditional-execution request that has a protocol name
\* and a condition registers a monitor.
C9_AsClaimed ==
    ( /\ Called("MeasurementControlAgent")
      /\ ConditionalRequest(last)
      /\ HasNameAndCondition(last) )
    => /\ last.reply.kind = "conditional_setup"
       /\ DictHas(active_monitors, last.reply.monitor_id)

\* C9 (amended): the conditional-execution setup handler registers a monitor
\* record and starts a background loop if a protocol name and a condition are
\* present, the snapshot is well formed and the model call returns; in every
\* other case it registers nothing, starts no loop and returns analysis or an
\* error message only.
C9_ConditionalSetup ==
    [][ ( /\ CallStep("MeasurementControlAgent")
          /\ ConditionalRequest(last') )
        => IF /\ HasNameAndCondition(last')
              /\ WellFormed(last')
              /\ ~last'.model.raises
           THEN /\ last'.reply.kind = "conditional_setup"
                /\ RegistersMonitor
           ELSE /\ last'.reply.kind \in
                      {"conditional_analysis", "conditional_error", "process_error"}
                /\ UNCHANGED <<active_monitors, monitoring_threads, threads>>
      ]_vars

\* a monitor has just been registered for a condition taken from the text
C9_Witness ==
    /\ Called("MeasurementControlAgent")
    /\ ConditionalRequest(last)
    /\ "condition" \notin DOMAIN last.parameters
    /\ last.reply.kind = "conditional_setup"
    /\ DictHas(active_monitors, last.reply.monitor_id)
    /\ DictGet(active_monitors, last.reply.monitor_id).condition = last.user_input
    /\ threads[Len(threads)].pc = "while_in"

\* C10: in both agents, an inspect request naming a protocol that the
\* snapshot's protocol map does not hold is answered by a message that carries
\* the list of the snapshot's protocol names, and the model is not called.
C10_InspectNotFound ==
    \A a \in {"ProtocolAgent", "MeasurementControlAgent"} :
        ( /\ Called(a)
          /\ last.handler = "_inspect_protocol"
          /\ ProtocolName.t = "str" /\ ProtocolName.s # <<>>
          /\ HasProtocolMap
          /\ ~NamesProtocol )
        => /\ last.reply.kind = "inspect_not_found"
           /\ last.reply.names = ProtocolList
           /\ last.prompts = <<>>

\* an inspect request for a protocol missing from a map of two protocols
C10_Witness ==
    /\ Called("ProtocolAgent")
    /\ last.handler = "_inspect_protocol"
    /\ ProtocolName = Q_name
    /\ HasProtocolMap
    /\ Len(ProtocolList) = 2
    /\ last.reply.kind = "inspect_not_found"
    /\ last.model.raises

\* the replies and the prompt of each handler: what shows which handler ran
RepliesOf(handler) ==
    CASE handler = "_inspect_protocol" ->
            {"inspect_which", "inspect_none_loaded", "inspect_not_found",
             "inspect_error", "inspect_analysis"}
      [] handler = "_setup_conditional_execution" ->
            {"conditional_setup", "conditional_analysis", "conditional_error"}
      [] handler = "_setup_device_monitoring" ->
            {"monitoring_setup", "monitoring_analysis", "monitoring_error"}
      [] handler = "_stop_monitoring" ->
            {"stopped", "stopped_all", "no_active_monitoring"}
      [] handler = "_analyze_measurement_request" -> {"analysis", "analysis_error"}
      [] handler = "_run_protocol" ->
            {"need_protocol_name", "run_not_found", "run_error", "run_starting",
             "run_ready", "run_cannot_execute"}
      [] handler = "_list_protocols" ->
            {"list_none_found", "list_bullets", "list_formatted"}
      [] handler = "_get_protocol_status" -> {"status", "status_error"}
      [] handler = "_general_protocol_query" -> {"query_info", "query_error"}
PromptOf(handler) ==
    CASE handler = "_inspect_protocol" -> "inspection_prompt"
      [] handler = "_setup_conditional_execution" -> "setup_prompt"
      [] handler = "_setup_device_monitoring" -> "monitoring_prompt"
      [] handler = "_stop_monitoring" -> "none"
      [] handler = "_analyze_measurement_request" -> "analysis_prompt"
      [] handler = "_run_protocol" -> "execution_prompt"
      [] handler = "_list_protocols" -> "list_prompt"
      [] handler = "_get_protocol_status" -> "status_prompt"
      [] handler = "_general_protocol_query" -> "query_prompt"
\* the call that has just returned ran the handler h and no other
RanOnly(h) ==
    /\ last.handler = h
    /\ last.reply.kind \in RepliesOf(h) \cup {"process_error"}
    /\ Len(last.prompts) <= 1
    /\ \A i \in 1..Len(last.prompts) : last.prompts[i] = PromptOf(h)
SnapshotIntent == Get(SystemState, "intent", "unknown")

\* C11: MeasurementControlAgent.process_request runs exactly one handler, the
\* one of the snapshot's intent: inspect_protocol, conditional_execution,
\* monitor_devices and stop_monitoring have their own handler, every other
\* intent and an absent one run the generic analysis handler and no other.
C11_Routing ==
    Called("MeasurementControlAgent") =>
        RanOnly(CASE SnapshotIntent = "inspect_protocol" -> "_inspect_protocol"
                  [] SnapshotIntent = "conditional_execution" ->
                        "_setup_conditional_execution"
                  [] SnapshotIntent = "monitor_devices" -> "_setup_device_monitoring"
                  [] SnapshotIntent = "stop_monitoring" -> "_stop_monitoring"
                  [] OTHER -> "_analyze_measurement_request")

\* a request without intent has run the analysis handler while a monitor
\* was registered, and the registry is as it was
C11_Witness ==
    /\ Called("MeasurementControlAgent")
    /\ "intent" \notin DOMAIN SystemState
    /\ last.reply.kind = "analysis"
    /\ last.prompts = <<"analysis_prompt">>
    /\ Len(active_monitors) = 1
    /\ Len(threads) = 1

\* C12 as claimed: a ProtocolAgent request whose snapshot intent is none of
\* run_protocol, list_protocols, inspect_protocol, protocol_status (absent and
\* "unknown" included) runs the generic query handler and no other, whatever
\* the request text and the conversation history.
C12_AsClaimed ==
    ( /\ Called("ProtocolAgent")
      /\ SnapshotIntent \notin PA_KnownIntents )
    => RanOnly("_general_protocol_query")

HandlerOfIntent(intent) ==
    CASE intent = "run_protocol" -> "_run_protocol"
      [] intent = "list_protocols" -> "_list_protocols"
      [] intent = "inspect_protocol" -> "_inspect_protocol"
      [] intent = "protocol_status" -> "_get_protocol_status"
      [] OTHER -> "_general_protocol_query"
\* the intent of the last entry of the conversation history, if any
HistoryIntent ==
    LET h == Get(last.context, "conversation_history", <<>>)
    IN  IF h = <<>> THEN "unknown" ELSE Get(h[Len(h)], "intent", "unknown")
TextHas(words) == \E w \in words : Contains(Lower(last.user_input.s), w)
\* the intent the words of the request text stand for
TextIntent ==
    IF /\ TextHas({<<"l","i","s","t">>, <<"s","h","o","w">>,
                   <<"p","r","o","v","i","d","e">>})
       /\ TextHas({<<"p","r","o","t","o","c","o","l">>})
    THEN "list_protocols"
    ELSE IF TextHas({<<"r","u","n">>, <<"e","x","e","c","u","t","e">>,
                     <<"s","t","a","r","t">>})
    THEN "run_protocol"
    ELSE IF TextHas({<<"i","n","s","p","e","c","t">>, <<"a","n","a","l","y","z","e">>,
                     <<"e","x","a","m","i","n","e">>})
    THEN "inspect_protocol"
    ELSE "unknown"

\* C12 (amended): a ProtocolAgent request runs exactly one handler.  A
\* snapshot intent that is neither a known one nor "unknown" runs the generic
\* query handler.  An absent or "unknown" snapshot intent is replaced by the
\* intent of the last history entry when that is not "unknown", otherwise by
\* the intent the keywords of the request text stand for; the generic handler
\* runs only when that intent is not a known one either.
C12_UnknownIntentRouting ==
    ( /\ Called("ProtocolAgent")
      /\ SnapshotIntent \notin PA_KnownIntents )
    => RanOnly(IF SnapshotIntent # "unknown" THEN "_general_protocol_query"
               ELSE IF HistoryIntent # "unknown" THEN HandlerOfIntent(HistoryIntent)
               ELSE HandlerOfIntent(TextIntent))

\* an unclassified request without history whose text says "Run" has run
\* the run handler
C12_Witness ==
    /\ Called("ProtocolAgent")
    /\ "intent" \notin DOMAIN SystemState
    /\ Get(last.context, "conversation_history", <<>>) = <<>>
    /\ last.user_input = T_Run
    /\ last.handler = "_run_protocol"
    /\ last.reply.kind \in RepliesOf("_run_protocol")

\* C13: a list-protocols request over a non-empty protocol map whose model
\* call fails returns (the call does not fail) a bullet list that names every
\* protocol of the snapshot once, in order, with their count; over an empty
\* protocol map the model is not called.
C13_ListFallback ==
    ( /\ Called("ProtocolAgent")
      /\ last.handler = "_list_protocols"
      /\ HasProtocolMap )
    => /\ (ProtocolList # <<>> /\ last.model.raises)
            => /\ ~last.raised
               /\ last.reply.kind = "list_bullets"
               /\ last.reply.bullets = ProtocolList
               /\ last.reply.count = Len(ProtocolList)
               /\ last.prompts = <<"list_prompt">>
       /\ (ProtocolList = <<>>)
            => /\ last.prompts = <<>>
               /\ last.reply.kind = "list_none_found"

\* the model failed on the listing of a map of two protocols
C13_Witness ==
    /\ Called("ProtocolAgent")
    /\ last.handler = "_list_protocols"
    /\ last.model.raises
    /\ HasProtocolMap
    /\ Len(ProtocolList) = 2
    /\ last.reply.kind = "list_bullets"
    /\ last.reply.bullets = <<P_name, R_name>>

\* C16: a ProtocolAgent request calls the host's run_protocol at most once,
\* and only when it ran the run handler, its protocol name is in the
\* snapshot's protocol map, the model call returned and the host has
\* run_protocol; the name passed is the requested protocol name.
C16_RunOnce ==
    Called("ProtocolAgent") =>
        /\ Len(last.host_calls) <= 1
        /\ last.host_calls # <<>>
             => /\ last.handler = "_run_protocol"
                /\ NamesProtocol
                /\ ModelReturned
                /\ main_window # "no_run_protocol"
                /\ last.host_calls = <<ProtocolName>>

\* run_protocol was called for a protocol of a map of two, and raised
C16_Witness ==
    /\ Called("ProtocolAgent")
    /\ main_window = "run_protocol_raises"
    /\ last.host_calls = <<P_name>>
    /\ HasProtocolMap
    /\ Len(ProtocolList) = 2
    /\ last.reply.kind = "run_error"

Live(i) == i <= Len(threads) /\ threads[i].pc \notin {"done", "crashed"}
Ended(i) == i <= Len(threads) /\ threads[i].pc \in {"done", "crashed"}

\* C14 as claimed: the loop of a monitor that a stop request has removed
\* eventually exits when it is scheduled fairly, whatever requests follow.
C14_AsClaimed ==
    \A i \in 1..MaxThreads : (i \in stopped) ~> Ended(i)

\* C15 as claimed: no loop thread ends with an uncaught exception.
C15_AsClaimed ==
    \A i \in 1..Len(threads) : threads[i].pc # "crashed"

\* the live threads that poll the identifier k
PollersOf(k) == {i \in 1..Len(threads) : Live(i) /\ threads[i].monitor_id = k}

\* C17 as claimed: between requests, every identifier of active_monitors is
\* polled by exactly one live loop thread, and monitoring_threads maps the
\* identifier to that thread.
C17_AsClaimed ==
    \A k \in KeySet(active_monitors) :
        /\ Cardinality(PollersOf(k)) = 1
        /\ DictHas(monitoring_threads, k)
        /\ PollersOf(k) = {DictGet(monitoring_threads, k)}

\* C18 as claimed: the loop of a monitor that has been stopped never sets to
\* "error" the status of a record (registered, then, by a later setup under
\* the same identifier).
C18_AsClaimed ==
    [][ \A k \in KeySet(active_monitors) \cap KeySet(active_monitors') :
          ( /\ DictGet(active_monitors, k).status # "error"
            /\ DictGet(active_monitors', k).status = "error" )
          => ~ \E i \in stopped : threads'[i] # threads[i]
      ]_vars

====
